---- MODULE Spec2Model ----
(***************************************************************************)
(* Model of soroban-token-fuzzer's address generator (src/addrgen.rs):     *)
(* the derivation of the test signers from an AddressGenerator value and   *)
(* the installation of the account and trustline ledger entries backing    *)
(* the account-type signers.                                               *)
(*                                                                         *)
(* A u64 is kept at its full width as four 16-bit limbs, least significant *)
(* limb first, so that the sums near u64::MAX carry and overflow exactly   *)
(* as the 64-bit additions of the code do.                                 *)
(***************************************************************************)
EXTENDS Integers, Sequences, FiniteSets, TLC

\* crate::input::NUMBER_OF_ADDRESSES: the batch size.  Its value is set
\* outside addrgen.rs; the model is parametric in it.
NUMBER_OF_ADDRESSES == 3

\* How many calls of the public operations one behaviour makes.
MaxCalls == 3

----------------------------------------------------------------------------
\* Option<T>

None == [tag |-> "None"]

Some(v) == [tag |-> "Some", val |-> v]

----------------------------------------------------------------------------
\* u64 arithmetic

\* One limb of a u64 holds 16 bits.
LimbBase == 256 * 256

u64_MAX == <<LimbBase - 1, LimbBase - 1, LimbBase - 1, LimbBase - 1>>

u64_MIN == <<0, 0, 0, 0>>

\* `i as u64` for a usize below 2^31
as_u64(n) == <<n % LimbBase, (n \div LimbBase) % LimbBase, 0, 0>>

\* The limbs of a + b and the carry out of bit 63.
wide_add(a, b) ==
    LET s1 == a[1] + b[1]
        s2 == a[2] + b[2] + (s1 \div LimbBase)
        s3 == a[3] + b[3] + (s2 \div LimbBase)
        s4 == a[4] + b[4] + (s3 \div LimbBase)
    IN  [limbs |-> <<s1 % LimbBase, s2 % LimbBase, s3 % LimbBase, s4 % LimbBase>>,
         carry |-> s4 \div LimbBase]

\* u64::checked_add with the overflow reported as success (a wrapping add).
checked_add_wrapping(a, b) == Some(wide_add(a, b).limbs)

\* u64::checked_add at a width of 32 bits: None once the sum passes 2^32 - 1.
checked_add_u32(a, b) ==
    LET r == wide_add(a, b)
    IN  IF r.carry = 0 /\ r.limbs[3] = 0 /\ r.limbs[4] = 0 THEN Some(r.limbs) ELSE None

\* u64::checked_add that loses its right operand.
checked_add_dropping(a, b) == IF wide_add(a, b).carry = 0 THEN Some(a) ELSE None

\* u64::checked_add: None when the sum does not fit 64 bits.
checked_add(a, b) ==
    LET r == wide_add(a, b)
    IN  IF r.carry = 0 THEN Some(r.limbs) ELSE None

\* a - n for a small n that does not borrow past the lowest limb
u64_sub_small(a, n) == <<a[1] - n, a[2], a[3], a[4]>>

\* a <= b on u64
u64_le(a, b) ==
    \/ a = b
    \/ \E k \in 1..4 : a[k] < b[k] /\ \A j \in (k + 1)..4 : a[j] = b[j]

\* u64::to_be_bytes with the bytes in little-endian order.
to_le_bytes(x) ==
    [k \in 1..8 |->
        LET limb == x[(k + 1) \div 2]
        IN  IF k % 2 = 1 THEN limb % 256 ELSE limb \div 256]

\* u64::to_be_bytes: the 8 bytes, most significant first.
to_be_bytes(x) ==
    [k \in 1..8 |->
        LET limb == x[4 - ((k - 1) \div 2)]
        IN  IF k % 2 = 1 THEN limb \div 256 ELSE limb % 256]

----------------------------------------------------------------------------
\* ed25519_dalek and the XDR types

\* SigningKey::from_bytes: the key whose secret is the 32 bytes.
SigningKey_from_bytes(bytes) == [secret_key |-> bytes]

\* SigningKey::verifying_key().to_bytes(): the public key of a secret, an
\* uninterpreted function of the secret (ed25519 is not computed here).
verifying_key_to_bytes(signing_key) ==
    [repr |-> "ed25519_public_of", of |-> signing_key.secret_key]

\* Uint256 of 32 given bytes.
Uint256(bytes) == [repr |-> "bytes", of |-> bytes]

AccountId(uint256) == [PublicKeyTypeEd25519 |-> uint256]

ScAddress_Account(account_id) == [type |-> "Account", account_id |-> account_id]

ScAddress_Contract(bytes) == [type |-> "Contract", hash |-> bytes]

\* Address::try_from_val(env, &sc_address): the environment's handle of it.
Address_try_from_val(sc_address) == [address_object_of |-> sc_address]

\* ScAddress::try_from(address): what the handle stands for.
ScAddress_try_from(address) == address.address_object_of

----------------------------------------------------------------------------
\* The program's state

VARIABLES
    self,             \* the AddressGenerator: [address_seed, address_types]
    storage,          \* the environment's ledger storage: LedgerKey -> LedgerEntry
    pc,               \* "idle", "for_each" (inside setup_account_storage), "aborted"
    panic,            \* the message of the panic that aborted the process, or ""
    signers_n_bytes,  \* setup_account_storage's local list
    next_signer,      \* index (from 1) of the next element for_each visits
    pending,          \* the calls the closure still makes for the current element
    returned,         \* what the last generate_signers call returned, an Option
    derived,          \* history: every list generate_signers_with_bytes returned
    puts,             \* history: the keys put by the current setup call, in order
    failed_put,       \* history: the key whose put failed, an Option
    last_op,          \* history: the operation that completed last
    calls             \* number of calls of the public operations so far

vars == <<self, storage, pc, panic, signers_n_bytes, next_signer, pending,
          returned, derived, puts, failed_put, last_op, calls>>

AddressType == {"Account", "Contract"}

----------------------------------------------------------------------------
\* generate_signers_with_bytes

\* signer_bytes: 24 zero bytes, then the 8 bytes of the seed.
signer_bytes_of(seed) == [k \in 1..32 |-> IF k <= 24 THEN 0 ELSE seed[k - 24]]

\* The match with its arms exchanged.
match_address_type_swapped(address_type, signer_bytes) ==
    IF address_type = "Contract"
    THEN LET signing_key == SigningKey_from_bytes(signer_bytes)
             verifying_key == verifying_key_to_bytes(signing_key)
             account_id == AccountId(verifying_key)
         IN  [address |-> Address_try_from_val(ScAddress_Account(account_id)),
              key |-> Some(signing_key)]
    ELSE [address |-> Address_try_from_val(ScAddress_Contract(signer_bytes)),
          key |-> None]

\* match self.address_types[i]: the TestSigner of one slot.
match_address_type(address_type, signer_bytes) ==
    IF address_type = "Account"
    THEN LET signing_key == SigningKey_from_bytes(signer_bytes)
             verifying_key == verifying_key_to_bytes(signing_key)
             account_id == AccountId(verifying_key)
         IN  [address |-> Address_try_from_val(ScAddress_Account(account_id)),
              key |-> Some(signing_key)]
    ELSE [address |-> Address_try_from_val(ScAddress_Contract(signer_bytes)),
          key |-> None]

Returns(v) == [tag |-> "returns", val |-> v]

Panics(msg) == [tag |-> "panics", msg |-> msg]

\* The loop from iteration i on (i counts from 0), with the signers pushed so far.
RECURSIVE for_i(_, _, _)
for_i(gen, i, signers) ==
    IF i = NUMBER_OF_ADDRESSES
    THEN Returns(signers)
    ELSE LET sum == checked_add(gen.address_seed, as_u64(i))
         IN  IF sum = None
             THEN Panics("Overflow")
             ELSE LET seed == to_be_bytes(sum.val)
                      signer_bytes == signer_bytes_of(seed)
                      test_signer ==
                          match_address_type(gen.address_types[i + 1], signer_bytes)
                  IN  for_i(gen, i + 1, Append(signers, <<test_signer, signer_bytes>>))

\* A derivation that reads the environment: the seed moves with the number of
\* entries the storage holds.
generate_signers_with_bytes_env(gen) ==
    for_i([gen EXCEPT !.address_seed =
               wide_add(gen.address_seed, as_u64(Cardinality(DOMAIN storage))).limbs],
          0, <<>>)

generate_signers_with_bytes(gen) == for_i(gen, 0, <<>>)

\* generate_signers: the signers without the bytes.
generate_signers(gen) ==
    LET r == generate_signers_with_bytes(gen)
    IN  IF r.tag = "panics" THEN r
        ELSE Returns([k \in 1..Len(r.val) |-> r.val[k][1]])

----------------------------------------------------------------------------
\* create_default_account, create_default_trustline

LedgerKey_Account(account_id) == [type |-> "Account", account_id |-> account_id]

\* A trustline key that leaves the account out.
LedgerKey_Trustline_shared(account_id, asset) ==
    [type |-> "Trustline", account_id |-> AccountId(Uint256(<<>>)), asset |-> asset]

LedgerKey_Trustline(account_id, asset) ==
    [type |-> "Trustline", account_id |-> account_id, asset |-> asset]

\* The account entry without its signers.
account_entry_unsigned(account_id, signers) ==
    [account_id |-> account_id,
     balance |-> 10000000,
     seq_num |-> 0,
     num_sub_entries |-> 0,
     inflation_dest |-> None,
     flags |-> 0,
     home_domain |-> "",
     thresholds |-> <<1, 0, 0, 0>>,
     signers |-> <<>>,
     ext |-> "V0"]

\* acc_entry: signers is the list of <<signing key, weight>> handed in.
account_entry(account_id, signers) ==
    [account_id |-> account_id,
     balance |-> 10000000,
     seq_num |-> 0,
     num_sub_entries |-> 0,
     inflation_dest |-> None,
     flags |-> 0,
     home_domain |-> "",
     thresholds |-> <<1, 0, 0, 0>>,
     signers |-> [k \in 1..Len(signers) |->
                     [key |-> [Ed25519 |-> verifying_key_to_bytes(signers[k][1])],
                      weight |-> signers[k][2]]],
     ext |-> "V0"]

\* The storage.put of create_default_account: the key and the entry.
create_default_account(account_id, signers) ==
    [fn |-> "create_default_account",
     key |-> LedgerKey_Account(account_id),
     entry |-> [last_modified_ledger_seq |-> 0,
                data |-> [type |-> "Account",
                          entry |-> account_entry(account_id, signers)],
                ext |-> "V0"]]

issuer_bytes == [k \in 1..32 |-> IF k = 32 THEN 1 ELSE 0]

\* TrustLineAsset::CreditAlphanum4 with code "aaa\0" (97 is b'a')
trustline_asset ==
    [CreditAlphanum4 |-> [asset_code |-> <<97, 97, 97, 0>>,
                          issuer |-> AccountId(Uint256(issuer_bytes))]]

\* AuthorizedFlag (1) | TrustlineClawbackEnabledFlag (4): disjoint bits
trustline_flags == 1 + 4

i64_MAX == <<LimbBase - 1, LimbBase - 1, LimbBase - 1, (LimbBase \div 2) - 1>>

trustline_entry(account_id) ==
    [account_id |-> account_id,
     asset |-> trustline_asset,
     balance |-> 0,
     limit |-> i64_MAX,
     flags |-> trustline_flags,
     ext |-> "V0"]

\* The storage.put of create_default_trustline: the key and the entry.
create_default_trustline(account_id) ==
    [fn |-> "create_default_trustline",
     key |-> LedgerKey_Trustline(account_id, trustline_asset),
     entry |-> [last_modified_ledger_seq |-> 0,
                data |-> [type |-> "Trustline", entry |-> trustline_entry(account_id)],
                ext |-> "V0"]]

\* Storage::put(key, entry): the map with the entry under the key.
storage_put(map, key, entry) ==
    [k \in DOMAIN map \cup {key} |-> IF k = key THEN entry ELSE map[k]]

----------------------------------------------------------------------------
\* setup_account_storage

\* The closure with the trustline created before the account.
closure_trustline_first(signer, bytes) ==
    LET sc_addr == ScAddress_try_from(signer.address)
    IN  IF sc_addr.type = "Account"
        THEN LET signing_key == SigningKey_from_bytes(bytes)
             IN  <<create_default_trustline(sc_addr.account_id),
                   create_default_account(sc_addr.account_id, <<<<signing_key, 100>>>>)>>
        ELSE <<>>

\* The closure that gives every address an account and a trustline.
closure_every_address(signer, bytes) ==
    LET account_id == AccountId(verifying_key_to_bytes(SigningKey_from_bytes(bytes)))
        signing_key == SigningKey_from_bytes(bytes)
    IN  <<create_default_account(account_id, <<<<signing_key, 100>>>>),
          create_default_trustline(account_id)>>

\* The closure of for_each applied to one (signer, bytes): the calls it makes,
\* in order.
closure(signer, bytes) ==
    LET sc_addr == ScAddress_try_from(signer.address)
    IN  IF sc_addr.type = "Account"
        THEN LET signing_key == SigningKey_from_bytes(bytes)
             IN  <<create_default_account(sc_addr.account_id, <<<<signing_key, 100>>>>),
                   create_default_trustline(sc_addr.account_id)>>
        ELSE <<>>

----------------------------------------------------------------------------
\* The state machine

\* The seeds the model draws from: small ones, ones whose sub-seeds carry
\* from byte to byte and from limb to limb, and the ones around the bound
\* u64::MAX - NUMBER_OF_ADDRESSES of the Arbitrary implementation.
Seeds ==
    {u64_MIN, as_u64(1), as_u64(255), as_u64(1000), as_u64(LimbBase - 1),
     <<LimbBase - 1, LimbBase - 1, 0, 0>>,
     <<LimbBase - 2, LimbBase - 1, LimbBase - 1, 0>>,
     u64_sub_small(u64_MAX, NUMBER_OF_ADDRESSES + 1),
     u64_sub_small(u64_MAX, NUMBER_OF_ADDRESSES),
     u64_sub_small(u64_MAX, NUMBER_OF_ADDRESSES - 1),
     u64_sub_small(u64_MAX, NUMBER_OF_ADDRESSES - 2),
     u64_MAX}

\* The range the derived Arbitrary draws address_seed from.
arbitrary_address_seed(seed) ==
    u64_le(u64_MIN, seed) /\ u64_le(seed, u64_sub_small(u64_MAX, NUMBER_OF_ADDRESSES))

EmptyStorage == [k \in {} |-> None]

\* An AddressGenerator is a public struct of public fields: besides the
\* values Arbitrary draws, a caller can build one with any seed.
Init ==
    /\ self \in [address_seed : Seeds,
                 address_types : [1..NUMBER_OF_ADDRESSES -> AddressType]]
    /\ storage = EmptyStorage
    /\ pc = "idle"
    /\ panic = ""
    /\ signers_n_bytes = <<>>
    /\ next_signer = 1
    /\ pending = <<>>
    /\ returned = None
    /\ derived = {}
    /\ puts = <<>>
    /\ failed_put = None
    /\ last_op = ""
    /\ calls = 0

\* pub fn generate_signers
GenerateSigners ==
    /\ pc = "idle"
    /\ calls < MaxCalls
    /\ calls' = calls + 1
    /\ LET r == generate_signers(self)
       IN  IF r.tag = "panics"
           THEN /\ pc' = "aborted"
                /\ panic' = r.msg
                /\ UNCHANGED <<returned, derived, last_op>>
           ELSE /\ returned' = Some(r.val)
                /\ derived' = derived \cup {generate_signers_with_bytes(self).val}
                /\ last_op' = "generate_signers"
                /\ UNCHANGED <<pc, panic>>
    /\ UNCHANGED <<self, storage, signers_n_bytes, next_signer, pending, puts, failed_put>>

\* setup_account_storage, its first statement: the derivation.
SetupAccountStorage ==
    /\ pc = "idle"
    /\ calls < MaxCalls
    /\ calls' = calls + 1
    /\ LET r == generate_signers_with_bytes(self)
       IN  IF r.tag = "panics"
           THEN /\ pc' = "aborted"
                /\ panic' = r.msg
                /\ UNCHANGED <<signers_n_bytes, next_signer, derived, puts>>
           ELSE /\ pc' = "for_each"
                /\ signers_n_bytes' = r.val
                /\ next_signer' = 1
                /\ derived' = derived \cup {r.val}
                /\ puts' = <<>>
                /\ UNCHANGED panic
    /\ UNCHANGED <<self, storage, pending, returned, failed_put, last_op>>

\* for_each takes the next element and the closure matches its address.
ForEach ==
    /\ pc = "for_each"
    /\ pending = <<>>
    /\ next_signer <= Len(signers_n_bytes)
    /\ pending' = closure(signers_n_bytes[next_signer][1], signers_n_bytes[next_signer][2])
    /\ next_signer' = next_signer + 1
    /\ UNCHANGED <<self, storage, pc, panic, signers_n_bytes, returned, derived, puts,
                   failed_put, last_op, calls>>

\* with_mut_storage(|storage| storage.put(..)).expect("ok") of the call at
\* the head of pending: the put stores the entry, or fails and stores nothing.
PutOrPanic(ok) ==
    LET call == Head(pending)
    IN  IF ok
        THEN /\ storage' = storage_put(storage, call.key, call.entry)
             /\ puts' = Append(puts, call.key)
             /\ pending' = Tail(pending)
             /\ UNCHANGED <<pc, panic, failed_put>>
        ELSE /\ pc' = "aborted"
             /\ panic' = "ok"
             /\ failed_put' = Some(call.key)
             /\ UNCHANGED <<storage, puts, pending>>

CreateDefaultAccount ==
    /\ pc = "for_each"
    /\ pending # <<>>
    /\ Head(pending).fn = "create_default_account"
    /\ \E ok \in BOOLEAN : PutOrPanic(ok)
    /\ UNCHANGED <<self, signers_n_bytes, next_signer, returned, derived, last_op, calls>>

CreateDefaultTrustline ==
    /\ pc = "for_each"
    /\ pending # <<>>
    /\ Head(pending).fn = "create_default_trustline"
    /\ \E ok \in BOOLEAN : PutOrPanic(ok)
    /\ UNCHANGED <<self, signers_n_bytes, next_signer, returned, derived, last_op, calls>>

\* setup_account_storage returns once for_each has visited every element.
SetupReturn ==
    /\ pc = "for_each"
    /\ pending = <<>>
    /\ next_signer > Len(signers_n_bytes)
    /\ pc' = "idle"
    /\ last_op' = "setup_account_storage"
    /\ UNCHANGED <<self, storage, panic, signers_n_bytes, next_signer, pending, returned,
                   derived, puts, failed_put, calls>>

\* The fuzzer recreates the Env between transactions: an empty storage.
EnvRecreate ==
    /\ pc = "idle"
    /\ storage # EmptyStorage
    /\ storage' = EmptyStorage
    /\ last_op' = "Env"
    /\ UNCHANGED <<self, pc, panic, signers_n_bytes, next_signer, pending, returned,
                   derived, puts, failed_put, calls>>

Next ==
    \/ GenerateSigners
    \/ SetupAccountStorage
    \/ ForEach
    \/ CreateDefaultAccount
    \/ CreateDefaultTrustline
    \/ SetupReturn
    \/ EnvRecreate

Spec == Init /\ [][Next]_vars

TypeOK ==
    /\ pc \in {"idle", "for_each", "aborted"}
    /\ panic \in {"", "Overflow", "ok"}
    /\ calls \in 0..MaxCalls
    /\ next_signer \in 1..(NUMBER_OF_ADDRESSES + 1)

----------------------------------------------------------------------------
\* Vocabulary of the properties

N == NUMBER_OF_ADDRESSES

\* The schema is one the Arbitrary implementation produces.
ValidSchema == arbitrary_address_seed(self.address_seed)

\* The u64 that 8 big-endian bytes stand for.
from_be_bytes(b) == [k \in 1..4 |-> b[9 - 2 * k] * 256 + b[10 - 2 * k]]

\* The last 8 bytes of a fingerprint.
Low8(bytes) == [k \in 1..8 |-> bytes[24 + k]]

\* The account id of a key-backed identity: the public key of its key.
AccountIdOf(test_signer) == AccountId(verifying_key_to_bytes(test_signer.key.val))

AccountKeys == {k \in DOMAIN storage : k.type = "Account"}

TrustlineKeys == {k \in DOMAIN storage : k.type = "Trustline"}

\* The keys a complete setup writes for the derived list d, in order.
RECURSIVE ExpectedPutsFrom(_, _)
ExpectedPutsFrom(d, i) ==
    IF i > Len(d) THEN <<>>
    ELSE (IF self.address_types[i] = "Account"
          THEN <<LedgerKey_Account(AccountIdOf(d[i][1])),
                 LedgerKey_Trustline(AccountIdOf(d[i][1]), trustline_asset)>>
          ELSE <<>>) \o ExpectedPutsFrom(d, i + 1)

ExpectedPuts(d) == ExpectedPutsFrom(d, 1)

IsPrefix(s, t) == Len(s) <= Len(t) /\ \A k \in 1..Len(s) : s[k] = t[k]

Range(s) == {s[k] : k \in 1..Len(s)}

BothKinds == \E i, j \in 1..N : self.address_types[i] = "Account"
                               /\ self.address_types[j] = "Contract"

----------------------------------------------------------------------------
C2_OverflowAtBoundPlusOne ==
    (self.address_seed = u64_sub_small(u64_MAX, N - 1) /\ calls > 0)
        => (pc = "aborted" /\ panic = "Overflow")

\* C2, amended: with address_seed = u64::MAX - N + 2 every call of the
\* derivation aborts with "Overflow" and returns nothing, nothing is
\* written; with address_seed = u64::MAX - N + 1 the derivation does not
\* overflow, and the last sub-seed of the list it returns is u64::MAX.
C2_OverflowAtBoundPlusTwo ==
    /\ (self.address_seed = u64_sub_small(u64_MAX, N - 2) /\ calls > 0)
          => /\ pc = "aborted"
             /\ panic = "Overflow"
             /\ derived = {}
             /\ returned = None
             /\ storage = EmptyStorage
    /\ self.address_seed = u64_sub_small(u64_MAX, N - 1)
          => /\ panic # "Overflow"
             /\ (calls > 0 /\ pc # "aborted") => derived # {}
             /\ \A d \in derived : Len(d) = N /\ from_be_bytes(Low8(d[N][2])) = u64_MAX

\* A call on the seed u64::MAX - N + 2 has aborted.
C2_Witness ==
    /\ self.address_seed = u64_sub_small(u64_MAX, N - 2)
    /\ calls > 0
    /\ pc = "aborted"

\* C3: on a valid schema no sub-seed addition overflows: the derivation never
\* aborts with "Overflow", every call returns a list, and each list has
\* exactly N entries, entry i carrying the sub-seed address_seed + i.
C3_ValidSchemaNeverOverflows ==
    ValidSchema =>
        /\ panic # "Overflow"
        /\ \A i \in 0..(N - 1) : wide_add(self.address_seed, as_u64(i)).carry = 0
        /\ calls > 0 => derived # {}
        /\ \A d \in derived :
              /\ Len(d) = N
              /\ \A i \in 0..(N - 1) :
                    from_be_bytes(Low8(d[i + 1][2]))
                        = wide_add(self.address_seed, as_u64(i)).limbs

\* The largest valid seed has been derived from.
C3_Witness ==
    /\ self.address_seed = u64_sub_small(u64_MAX, N)
    /\ derived # {}

\* C4: uniqueness.  On a valid schema the N fingerprints of a derived list are
\* pairwise distinct, whatever the address types.
C4_FingerprintsDistinct ==
    ValidSchema =>
        \A d \in derived :
            \A i, j \in 1..Len(d) : i # j => d[i][2] # d[j][2]

\* A list of at least two entries whose sub-seeds carry into the next byte.
C4_Witness ==
    /\ N >= 2
    /\ self.address_seed = as_u64(255)
    /\ \E d \in derived : Len(d) = N

\* C5: fixture completeness.  When setup_account_storage has returned (and
\* no later operation has begun), the storage holds, for every Account index, exactly one Account entry and
\* exactly one Trustline entry under that identity's account id, each entry
\* of the kind of its key and about that account; for every Contract index
\* it holds no entry about that identity; and the keys the setup put are
\* these and no others.
C5_FixtureComplete ==
    (pc = "idle" /\ last_op = "setup_account_storage") =>
        /\ derived # {}
        /\ \A d \in derived :
              /\ \A i \in 1..N :
                    IF self.address_types[i] = "Account"
                    THEN LET id == AccountIdOf(d[i][1])
                         IN  /\ Cardinality({k \in AccountKeys : k.account_id = id}) = 1
                             /\ Cardinality({k \in TrustlineKeys : k.account_id = id}) = 1
                             /\ \A k \in DOMAIN storage :
                                   k.account_id = id =>
                                       /\ storage[k].data.type = k.type
                                       /\ storage[k].data.entry.account_id = id
                    ELSE \A k \in DOMAIN storage :
                            /\ k.account_id # AccountId(Uint256(d[i][2]))
                            /\ k.account_id
                                 # AccountId(verifying_key_to_bytes(
                                       SigningKey_from_bytes(d[i][2])))
              /\ DOMAIN storage = Range(ExpectedPuts(d))
              /\ Range(puts) = Range(ExpectedPuts(d))

\* A setup has returned on a schema with an Account and a Contract index.
C5_Witness ==
    /\ last_op = "setup_account_storage"
    /\ pc = "idle"
    /\ BothKinds
    /\ ValidSchema

PutFailed == pc = "aborted" /\ panic = "ok"

\* The accounts the storage holds an Account entry of but no Trustline entry.
AccountsWithoutTrustline ==
    {k.account_id : k \in {a \in AccountKeys :
        LedgerKey_Trustline(a.account_id, trustline_asset) \notin DOMAIN storage}}

\* C6, as stated: when a put has failed and the setup has aborted, no account
\* is left with its Account entry stored and its Trustline entry missing.
C6_NoPartialFixtureAtAbort == PutFailed => AccountsWithoutTrustline = {}

\* C6, amended: when a put fails the setup aborts with no retry and no
\* rollback: the failed put is not among the puts made, every put made
\* before it remains stored, and no Trustline entry is stored without its
\* Account entry.  An Account entry is stored without its Trustline entry
\* exactly when the put that failed is that account's Trustline put (and no
\* earlier setup on the same storage stored that Trustline entry); every
\* other account written has both.
C6_AbortKeepsCommittedPuts ==
    PutFailed =>
        /\ failed_put # None
        /\ failed_put.val \notin Range(puts)
        /\ Range(puts) \subseteq DOMAIN storage
        /\ \A k \in TrustlineKeys : LedgerKey_Account(k.account_id) \in DOMAIN storage
        /\ IF failed_put.val.type = "Trustline" /\ failed_put.val \notin DOMAIN storage
           THEN AccountsWithoutTrustline = {failed_put.val.account_id}
           ELSE AccountsWithoutTrustline = {}

\* The setup aborted on the Trustline put of the second account it wrote: the
\* first account has both entries, the second only its Account entry.
C6_Witness ==
    /\ PutFailed
    /\ failed_put.val.type = "Trustline"
    /\ Len(puts) = 3
    /\ Cardinality(AccountsWithoutTrustline) = 1

\* C7: authorization validity.  Every Account entry in the storage is about
\* the account of its key, has exactly one signer, whose key is the public
\* key that is the account id and whose weight, 100, is above the low
\* threshold thresholds[0], and has sequence number 0 and no sub-entries.
C7_AccountEntryAuthorized ==
    \A k \in AccountKeys :
        LET e == storage[k].data.entry
        IN  /\ storage[k].data.type = "Account"
            /\ e.account_id = k.account_id
            /\ Len(e.signers) = 1
            /\ AccountId(e.signers[1].key.Ed25519) = k.account_id
            /\ \E d \in derived : \E i \in 1..N :
                  /\ d[i][1].key # None
                  /\ k.account_id = AccountIdOf(d[i][1])
                  /\ e.signers[1].key.Ed25519 = verifying_key_to_bytes(d[i][1].key.val)
            /\ e.signers[1].weight = 100
            /\ e.signers[1].weight > e.thresholds[1]
            /\ e.seq_num = 0
            /\ e.num_sub_entries = 0

\* Two Account entries are stored.
C7_Witness == ValidSchema /\ Cardinality(AccountKeys) >= 2

\* C8: kind correctness.  In every derived list the identity at index i has
\* a key and an account address exactly when address_types[i] is Account,
\* and no key and a contract address exactly when it is Contract.
C8_KindCorrect ==
    \A d \in derived : \A i \in 1..Len(d) :
        LET signer == d[i][1]
            sc == ScAddress_try_from(signer.address)
        IN  /\ (signer.key # None /\ sc.type = "Account")
                  <=> self.address_types[i] = "Account"
            /\ (signer.key = None /\ sc.type = "Contract")
                  <=> self.address_types[i] = "Contract"
            /\ signer.key # None => sc = ScAddress_Account(AccountIdOf(signer))
            /\ signer.key = None => sc = ScAddress_Contract(d[i][2])

\* A list with an Account and a Contract identity has been derived.
C8_Witness == ValidSchema /\ BothKinds /\ derived # {}

Zeros24 == [k \in 1..24 |-> 0]

\* C9: fingerprint layout.  In every derived list the fingerprint at index i
\* is 24 zero bytes followed by the 8 bytes, most significant first, of
\* address_seed + i, whatever the kind at i; for the seed 1000 the first two
\* fingerprints end in 3, 232 (1000) and 3, 233 (1001).
C9_FingerprintLayout ==
    \A d \in derived : \A i \in 0..(Len(d) - 1) :
        LET bytes == d[i + 1][2]
        IN  /\ Len(bytes) = 32
            /\ \A k \in 1..32 : bytes[k] \in 0..255
            /\ \A k \in 1..24 : bytes[k] = 0
            /\ from_be_bytes(Low8(bytes)) = wide_add(self.address_seed, as_u64(i)).limbs
            /\ (self.address_seed = as_u64(1000) /\ i = 0)
                  => bytes = Zeros24 \o <<0, 0, 0, 0, 0, 0, 3, 232>>
            /\ (self.address_seed = as_u64(1000) /\ i = 1)
                  => bytes = Zeros24 \o <<0, 0, 0, 0, 0, 0, 3, 233>>

\* The list of seed 1000 with the kinds Account, Contract at its first two
\* indices has been derived.
C9_Witness ==
    /\ self.address_seed = as_u64(1000)
    /\ self.address_types[1] = "Account"
    /\ self.address_types[2] = "Contract"
    /\ derived # {}

\* C10: write order.  The keys a setup call has put so far are an initial
\* part of the keys of the Account indices taken in index order, each
\* account's Account key directly followed by its Trustline key; no key is
\* put twice in one call; the closure returns with nothing left to put only
\* after both; when for_each is through, all of them have been put; and a
\* stored Trustline entry always has its Account entry stored.
C10_WriteOrder ==
    /\ puts # <<>> => derived # {}
    /\ \A d \in derived :
          /\ IsPrefix(puts, ExpectedPuts(d))
          /\ (pc = "for_each" /\ pending = <<>>) => Len(puts) % 2 = 0
          /\ (pc = "for_each" /\ pending = <<>> /\ next_signer > N)
                => puts = ExpectedPuts(d)
    /\ \A i, j \in 1..Len(puts) : i # j => puts[i] # puts[j]
    /\ \A k \in TrustlineKeys : LedgerKey_Account(k.account_id) \in DOMAIN storage

\* Between the two puts of the second account: its Account entry is stored,
\* its Trustline entry is not yet.
C10_Witness ==
    /\ pc = "for_each"
    /\ Len(puts) = 3
    /\ pending # <<>>
    /\ puts[3].type = "Account"
    /\ LedgerKey_Trustline(puts[3].account_id, trustline_asset) \notin DOMAIN storage

====
